---- MODULE Spec2Model ----
(***************************************************************************)
(* Stale Directory Checker (src/main.py).                                  *)
(*                                                                         *)
(* The program walks a root directory, asks GitPython for the state of     *)
(* every directory it visits (check_directory), keeps the stale results,   *)
(* sorts them by path and prints one block per result.  The repositories   *)
(* are only read, never written, so a directory's git state is an input.   *)
(*                                                                         *)
(* Three specifications:                                                   *)
(*   SpecStartup  the depth validation of the __main__ block               *)
(*   SpecCheck    check_directory and the queries on one directory         *)
(*   Spec         main(): root check, walk loop, filter, sort, print loop  *)
(***************************************************************************)
EXTENDS Integers, Sequences, FiniteSets, TLC

VARIABLES
    pc,            \* position of the program
    raw_depth,     \* the integer given with --depth
    depth,         \* args.depth
    warned,        \* whether logger.warning was called by the validation
    repo,          \* SpecCheck: the git state of the directory under check
    status_ret,    \* SpecCheck: what get_repo_status returned or raised
    diff_ret,      \* SpecCheck: what get_repo_commit_diff returned or raised
    fs,            \* Spec: directory path -> git state of that directory
    result,        \* the local variable `result`
    walked_depth,  \* main: walked_depth
    stack,         \* main: directories os.walk has still to yield, in order
    results,       \* main: results
    idx,           \* main: position of the print loop in results
    checked,       \* history: the paths passed to check_directory, in order
    output         \* history: the blocks printed, in order

vars == <<pc, raw_depth, depth, warned, repo, status_ret, diff_ret, fs,
          result, walked_depth, stack, results, idx, checked, output>>

----------------------------------------------------------------------------
(* Bounds *)

MaxFiles == 2      \* files of a working tree are 1..MaxFiles, in path order
MaxCommits == 2    \* commits a branch has that the other branch lacks
MaxBase == 1       \* commits the local and the remote branch share
MaxNames == 2      \* directory names per level
MaxLevel == 2      \* levels of the directory tree below the root
MaxDirs == 3       \* directories below the root
MaxDepthArg == 3   \* validated depths tried by main
DepthBelow == 30   \* the smallest --depth tried by the validation is -DepthBelow
DepthHi == 130     \* largest --depth tried by the validation

----------------------------------------------------------------------------
(* Python values: a value carries its type, so that the integer 0, False   *)
(* and the empty string are three different values.  A str is a status     *)
(* message, kept as its adverb and its count ("" is adverb "", count 0).   *)

PyInt(i) == [type |-> "int", n |-> i, adverb |-> ""]
PyBool(b) == [type |-> "bool", n |-> IF b THEN 1 ELSE 0, adverb |-> ""]
PyStr(adverb, i) == [type |-> "str", n |-> i, adverb |-> adverb]
EmptyStr == PyStr("", 0)

\* Python truth value of an int or a bool
Truthy(v) == v.n # 0

\* a call either returns a value or raises
Ok(v) == [exc |-> "none", val |-> v]
Raise(e) == [exc |-> e, val |-> PyInt(0)]
NotCalled == [exc |-> "notcalled", val |-> PyInt(0)]

Abs(i) == IF i < 0 THEN 0 - i ELSE i

----------------------------------------------------------------------------
(* Git state of a directory, as GitPython reports it.                      *)
(*   kind      "repo", "notrepo" (Repo() raises InvalidGitRepositoryError) *)
(*             or "error" (Repo() raises another exception)                *)
(*   detached  HEAD is detached: repo.active_branch raises TypeError       *)
(*   remote    "none": repo.remotes is empty; "other": remotes exist but   *)
(*             none is named origin, repo.remote() raises ValueError;      *)
(*             "origin"                                                    *)
(*   hasRef    origin has a ref named like the local branch                *)
(*   base, ahead, behind   commits shared / only local / only remote       *)
(*   staged    files whose index entry differs from HEAD                   *)
(*   unstaged  tracked files whose working copy differs from the index     *)
(*   untracked files not in the index                                      *)

Files == 1..MaxFiles

NoGit(kind) ==
    [kind |-> kind, detached |-> FALSE, remote |-> "none", hasRef |-> FALSE,
     base |-> 0, ahead |-> 0, behind |-> 0,
     staged |-> {}, unstaged |-> {}, untracked |-> {}]

GitRepos ==
    { r \in [kind : {"repo"}, detached : BOOLEAN,
             remote : {"none", "other", "origin"}, hasRef : BOOLEAN,
             base : 1..MaxBase, ahead : 0..MaxCommits, behind : 0..MaxCommits,
             staged : SUBSET Files, unstaged : SUBSET Files,
             untracked : SUBSET Files] :
        /\ r.hasRef => r.remote = "origin"
        /\ ~r.hasRef => r.ahead = 0 /\ r.behind = 0
        /\ r.untracked \cap (r.staged \cup r.unstaged) = {} }

Entries == GitRepos \cup {NoGit("notrepo"), NoGit("error")}

----------------------------------------------------------------------------
(* Lists of files: git reports paths in ascending order *)

Min(S) == CHOOSE x \in S : \A y \in S : x <= y

RECURSIVE SortedSeq(_)
SortedSeq(S) == IF S = {} THEN <<>>
                ELSE <<Min(S)>> \o SortedSeq(S \ {Min(S)})

Range(s) == {s[i] : i \in 1..Len(s)}

----------------------------------------------------------------------------
(* The queries *)

\* commit.count(): the commits reachable from the branch's commit
LocalCount(r) == r.base + r.ahead
RemoteCount(r) == r.base + r.behind

\* remote.refs[local_branch.name] after repo.active_branch, repo.remotes and
\* repo.remote(): the exception raised on the way, or "none"
RemoteBranchExc(r) ==
    IF r.remote # "origin" THEN "ValueError"
    ELSE IF ~r.hasRef THEN "IndexError"
    ELSE "none"

get_repo_commit_diff(r) ==
    IF r.detached THEN Raise("TypeError")
    ELSE IF r.remote = "none" THEN Ok(PyInt(0))
    ELSE IF RemoteBranchExc(r) # "none" THEN Raise(RemoteBranchExc(r))
    ELSE Ok(PyInt(LocalCount(r) - RemoteCount(r)))

\* get_repo_status with the remotes looked at before the difference
get_repo_status_remotes_first(r) ==
    LET diff == get_repo_commit_diff(r) IN
    IF diff.exc # "none" THEN diff
    ELSE IF r.remote = "none" THEN Ok(PyInt(0))
    ELSE IF diff.val.n # 0 THEN
        IF RemoteBranchExc(r) # "none" THEN Raise(RemoteBranchExc(r))
        ELSE Ok(PyStr(IF diff.val.n > 0 THEN "ahead" ELSE "behind",
                      Abs(diff.val.n)))
    ELSE Ok(EmptyStr)

get_repo_status(r) ==
    LET diff == get_repo_commit_diff(r) IN
    IF diff.exc # "none" THEN diff
    ELSE IF diff.val.n # 0 THEN
        IF r.detached THEN Raise("TypeError")
        ELSE IF r.remote = "none" THEN Ok(PyInt(0))
        ELSE IF RemoteBranchExc(r) # "none" THEN Raise(RemoteBranchExc(r))
        ELSE Ok(PyStr(IF diff.val.n > 0 THEN "ahead" ELSE "behind",
                      Abs(diff.val.n)))
    ELSE Ok(EmptyStr)

\* get_repo_modified_files diffing HEAD instead of the index
get_repo_modified_files_head(r) == SortedSeq(r.staged \cup r.unstaged)

\* repo.index.diff(None): the index against the working tree
get_repo_modified_files(r) == SortedSeq(r.unstaged)

get_repo_untracked_files(r) == SortedSeq(r.untracked)

\* repo.is_dirty() with its defaults index=True, working_tree=True,
\* untracked_files=False
RepoIsDirty(r) == r.staged # {} \/ r.unstaged # {}

is_repo_dirty(r) ==
    IF ~RepoIsDirty(r) THEN
        IF r.detached THEN Raise("TypeError")
        ELSE IF r.remote = "none" THEN Ok(PyInt(0))
        ELSE IF RemoteBranchExc(r) # "none" THEN Raise(RemoteBranchExc(r))
        ELSE Ok(PyBool(r.ahead # 0 \/ r.behind # 0))
    ELSE Ok(PyBool(TRUE))

StaleResult(directory, stale, modified, untracked) ==
    [directory |-> directory, stale |-> stale, status_message |-> "",
     modified |-> modified, untracked |-> untracked]

\* check_directory returning the collected files from its except branches
check_directory_keeps_files(directory, r) ==
    IF r.kind # "repo" THEN StaleResult(directory, PyBool(FALSE), <<>>, <<>>)
    ELSE LET modified == get_repo_modified_files(r)
             untracked == get_repo_untracked_files(r)
             is_dirty == is_repo_dirty(r)
         IN  IF is_dirty.exc # "none"
             THEN StaleResult(directory, PyBool(FALSE), modified, untracked)
             ELSE StaleResult(directory, is_dirty.val, modified, untracked)

check_directory(directory, r) ==
    IF r.kind = "notrepo" THEN StaleResult(directory, PyBool(FALSE), <<>>, <<>>)
    ELSE IF r.kind # "repo" THEN StaleResult(directory, PyBool(FALSE), <<>>, <<>>)
    ELSE LET modified == get_repo_modified_files(r)
             untracked == get_repo_untracked_files(r)
             is_dirty == is_repo_dirty(r)
         IN  IF is_dirty.exc # "none"
             THEN StaleResult(directory, PyBool(FALSE), <<>>, <<>>)
             ELSE StaleResult(directory, is_dirty.val, modified, untracked)

NoResult == StaleResult(<<>>, PyBool(FALSE), <<>>, <<>>)

----------------------------------------------------------------------------
(* Paths are strings, kept as the sequence of their character codes *)

Dot == 46      \* "."
Sep == 47      \* os.sep
LetterA == 97  \* "a"

RootDir == <<Dot>>

\* os.path.join(subdir, directory)
PathJoin(subdir, directory) == subdir \o <<Sep>> \o directory

----------------------------------------------------------------------------
(* Startup: the validation of args.depth *)

MinInt(a, b) == IF a < b THEN a ELSE b
MaxInt(a, b) == IF a > b THEN a ELSE b

\* `1 > args.depth > 99` is Python's chained comparison:
\* 1 > args.depth and args.depth > 99
DepthOutOfRange(d) == 1 > d /\ d > 99

Validate ==
    /\ pc = "startup"
    /\ IF DepthOutOfRange(depth)
       THEN /\ warned' = TRUE
            /\ depth' = 1
       ELSE /\ depth' = MaxInt(MinInt(depth, 99), 1)
            /\ UNCHANGED warned
    /\ pc' = "validated"
    /\ UNCHANGED <<raw_depth, repo, status_ret, diff_ret, fs, result,
                   walked_depth, stack, results, idx, checked, output>>

InitStartup ==
    /\ pc = "startup"
    /\ raw_depth \in (0 - DepthBelow)..DepthHi
    /\ depth = raw_depth
    /\ warned = FALSE
    /\ repo = NoGit("notrepo")
    /\ status_ret = NotCalled
    /\ diff_ret = NotCalled
    /\ fs = <<>>
    /\ result = NoResult
    /\ walked_depth = 0
    /\ stack = <<>>
    /\ results = <<>>
    /\ idx = 0
    /\ checked = <<>>
    /\ output = <<>>

NextStartup == Validate

SpecStartup == InitStartup /\ [][NextStartup]_vars

----------------------------------------------------------------------------
(* One directory: check_directory, then the two queries main makes on a    *)
(* repository it is about to print                                         *)

CheckDirectory ==
    /\ pc = "check"
    /\ result' = check_directory(RootDir, repo)
    /\ checked' = Append(checked, RootDir)
    /\ pc' = "checked"
    /\ UNCHANGED <<raw_depth, depth, warned, repo, status_ret, diff_ret, fs,
                   walked_depth, stack, results, idx, output>>

Query ==
    /\ pc = "checked"
    /\ repo.kind = "repo"
    /\ status_ret' = get_repo_status(repo)
    /\ diff_ret' = get_repo_commit_diff(repo)
    /\ pc' = "queried"
    /\ UNCHANGED <<raw_depth, depth, warned, repo, fs, result,
                   walked_depth, stack, results, idx, checked, output>>

InitCheck ==
    /\ pc = "check"
    /\ raw_depth = 1
    /\ depth = 1
    /\ warned = FALSE
    /\ repo \in Entries
    /\ status_ret = NotCalled
    /\ diff_ret = NotCalled
    /\ fs = <<>>
    /\ result = NoResult
    /\ walked_depth = 0
    /\ stack = <<>>
    /\ results = <<>>
    /\ idx = 0
    /\ checked = <<>>
    /\ output = <<>>

NextCheck == CheckDirectory \/ Query

SpecCheck == InitCheck /\ [][NextCheck]_vars

----------------------------------------------------------------------------
(* main(): the directory tree *)

Names == LetterA..(LetterA + MaxNames - 1)

\* a directory below the root, as the names on the way to it
NameSeqs == UNION {[1..k -> Names] : k \in 1..MaxLevel}

Parent(ns) == SubSeq(ns, 1, Len(ns) - 1)

RECURSIVE PathOf(_)
PathOf(ns) == IF ns = <<>> THEN RootDir
              ELSE PathJoin(PathOf(Parent(ns)), <<ns[Len(ns)]>>)

Trees == {T \in SUBSET NameSeqs :
             /\ Cardinality(T) <= MaxDirs
             /\ \A ns \in T : Len(ns) > 1 => Parent(ns) \in T}

Tracking(ahead, behind, unstaged) ==
    [kind |-> "repo", detached |-> FALSE, remote |-> "origin", hasRef |-> TRUE,
     base |-> 1, ahead |-> ahead, behind |-> behind,
     staged |-> {}, unstaged |-> unstaged, untracked |-> {}]

Local(detached, unstaged, untracked) ==
    [kind |-> "repo", detached |-> detached, remote |-> "none",
     hasRef |-> FALSE, base |-> 1, ahead |-> 0, behind |-> 0,
     staged |-> {}, unstaged |-> unstaged, untracked |-> untracked]

\* the git states the directories of the tree are drawn from
MainEntries ==
    { NoGit("notrepo"),
      Tracking(0, 0, {}),
      Tracking(MaxCommits, 0, {}),
      Tracking(0, 1, {1}),
      Tracking(MaxCommits, 1, {}),
      Local(FALSE, {}, {1}),
      Local(TRUE, {1}, {}) }

\* levels between the root and the directory
Level(path) == (Len(path) - Len(RootDir)) \div 2

\* the directory names os.walk lists in subdir
DirNames(subdir) ==
    {<<c>> : c \in {n \in Names : PathJoin(subdir, <<n>>) \in DOMAIN fs}}

\* the orders in which the names of S can be listed
Orders(S) ==
    {o \in [1..Cardinality(S) -> S] :
        \A i, j \in 1..Cardinality(S) : o[i] = o[j] => i = j}

----------------------------------------------------------------------------
(* main(): sorting and printing *)

\* Python's < on str
RECURSIVE StrLess(_, _)
StrLess(a, b) ==
    IF a = <<>> THEN b # <<>>
    ELSE IF b = <<>> THEN FALSE
    ELSE IF a[1] # b[1] THEN a[1] < b[1]
    ELSE StrLess(Tail(a), Tail(b))

\* x placed behind the elements of the sorted list whose key is not greater
RECURSIVE Insert(_, _)
Insert(sorted, x) ==
    IF sorted = <<>> THEN <<x>>
    ELSE IF StrLess(x.directory, Head(sorted).directory)
         THEN <<x>> \o sorted
         ELSE <<Head(sorted)>> \o Insert(Tail(sorted), x)

\* results.sort(key=lambda x: x[0])
RECURSIVE SortResults(_)
SortResults(list) ==
    IF list = <<>> THEN <<>>
    ELSE Insert(SortResults(SubSeq(list, 1, Len(list) - 1)), list[Len(list)])

IsStale(x) == Truthy(x.stale)

\* [result for result in results if result.stale]
FilterStale(list) == SelectSeq(list, IsStale)

\* the line output_repo prints: the path, the sign and the count
output_repo(res, diff) ==
    [directory |-> res.directory,
     diff_sign |-> IF diff > 0 THEN "+" ELSE "-",
     count |-> Abs(diff)]

----------------------------------------------------------------------------
(* main(): the steps *)

CheckRoot ==
    /\ pc = "main"
    /\ result' = check_directory(RootDir, fs[RootDir])
    /\ checked' = Append(checked, RootDir)
    /\ walked_depth' = 0
    /\ results' = <<>>
    /\ stack' = <<RootDir>>
    /\ pc' = "walk"
    /\ UNCHANGED <<raw_depth, depth, warned, repo, status_ret, diff_ret, fs,
                   idx, output>>

\* one iteration of `for subdir, dirs, files in os.walk(root_directory)`
WalkStep ==
    /\ pc = "walk"
    /\ stack # <<>>
    /\ LET subdir == Head(stack) IN
       \E dirs \in Orders(DirNames(subdir)) :
          LET full_path == [i \in 1..Len(dirs) |-> PathJoin(subdir, dirs[i])]
              found == [i \in 1..Len(dirs) |->
                           check_directory(full_path[i], fs[full_path[i]])]
          IN  /\ walked_depth' = walked_depth + 1
              /\ results' = results \o found
              /\ checked' = checked \o full_path
              /\ result' = IF Len(dirs) > 0 THEN found[Len(dirs)] ELSE result
              /\ stack' = full_path \o Tail(stack)
              /\ pc' = IF walked_depth' >= depth \/ stack' = <<>>
                       THEN "filter" ELSE "walk"
    /\ UNCHANGED <<raw_depth, depth, warned, repo, status_ret, diff_ret, fs,
                   idx, output>>

FilterSort ==
    /\ pc = "filter"
    /\ results' = SortResults(FilterStale(results))
    /\ idx' = 1
    /\ pc' = "print"
    /\ UNCHANGED <<raw_depth, depth, warned, repo, status_ret, diff_ret, fs,
                   result, walked_depth, stack, checked, output>>

\* one iteration of `for result in results`; an exception raised by one of
\* the two queries is caught nowhere and ends the run
PrintResult ==
    /\ pc = "print"
    /\ idx <= Len(results)
    /\ result' = results[idx]
    /\ LET status == get_repo_status(fs[results[idx].directory])
           diff == get_repo_commit_diff(fs[results[idx].directory])
       IN  IF ~IsStale(results[idx])
           THEN /\ idx' = idx + 1
                /\ UNCHANGED <<pc, output>>
           ELSE IF status.exc # "none" \/ diff.exc # "none"
           THEN /\ pc' = "crashed"
                /\ UNCHANGED <<idx, output>>
           ELSE /\ output' = Append(output, output_repo(results[idx], diff.val.n))
                /\ idx' = idx + 1
                /\ UNCHANGED pc
    /\ UNCHANGED <<raw_depth, depth, warned, repo, status_ret, diff_ret, fs,
                   walked_depth, stack, results, checked>>

Finish ==
    /\ pc = "print"
    /\ idx > Len(results)
    /\ pc' = "done"
    /\ UNCHANGED <<raw_depth, depth, warned, repo, status_ret, diff_ret, fs,
                   result, walked_depth, stack, results, idx, checked, output>>

Init ==
    /\ pc = "main"
    /\ depth \in 1..MaxDepthArg
    /\ raw_depth = depth
    /\ warned = FALSE
    /\ repo = NoGit("notrepo")
    /\ status_ret = NotCalled
    /\ diff_ret = NotCalled
    /\ \E T \in Trees : fs \in [{PathOf(ns) : ns \in T \cup {<<>>}} -> MainEntries]
    /\ result = NoResult
    /\ walked_depth = 0
    /\ stack = <<>>
    /\ results = <<>>
    /\ idx = 0
    /\ checked = <<>>
    /\ output = <<>>

Next == CheckRoot \/ WalkStep \/ FilterSort \/ PrintResult \/ Finish

Spec == Init /\ [][Next]_vars

----------------------------------------------------------------------------
(* Properties of SpecStartup and SpecCheck *)

Checked == pc \in {"checked", "queried"}

\* C1: a repository with an untracked file is reported stale and every
\* untracked file is in the result's untracked list
C1_UntrackedIsStale ==
    (Checked /\ repo.kind = "repo" /\ repo.untracked # {}) =>
        /\ Truthy(result.stale)
        /\ repo.untracked \subseteq Range(result.untracked)

\* C2 as stated: a repository with a modified tracked file, staged or
\* unstaged, is reported stale and the file is in the result's modified list
C2_ModifiedStagedOrUnstaged ==
    (Checked /\ repo.kind = "repo" /\ repo.staged \cup repo.unstaged # {}) =>
        /\ Truthy(result.stale)
        /\ (repo.staged \cup repo.unstaged) \subseteq Range(result.modified)

\* C2 amended: a repository with a modified tracked file, staged or
\* unstaged, is reported stale, and the modified list holds exactly the files
\* whose working copy differs from the index (a modification that is only
\* staged is not listed)
C2_ModifiedIsStale ==
    (Checked /\ repo.kind = "repo" /\ repo.staged \cup repo.unstaged # {}) =>
        /\ result.stale = PyBool(TRUE)
        /\ Range(result.modified) = repo.unstaged

C2_Witness ==
    /\ Checked
    /\ repo.kind = "repo"
    /\ repo.staged = {1}
    /\ repo.unstaged = {2}
    /\ result.stale = PyBool(TRUE)
    /\ result.modified = <<2>>

\* C4: the validation leaves a depth in [1,99] unchanged, and sets any other
\* depth to 1 with a warning
C4_DepthValidation ==
    pc = "validated" =>
        IF raw_depth \in 1..99
        THEN depth = raw_depth /\ ~warned
        ELSE depth = 1 /\ warned

\* the directory's query raises: Repo() fails, or is_repo_dirty goes on to
\* the remote branch and HEAD is detached, origin is missing or has no ref
\* named like the local branch
QueryRaises(r) ==
    \/ r.kind # "repo"
    \/ /\ r.staged = {} /\ r.unstaged = {}
       /\ \/ r.detached
          \/ r.remote = "other"
          \/ r.remote = "origin" /\ ~r.hasRef

\* C7: a directory that is not a repository, or whose query raises, gets a
\* result with stale False and empty modified and untracked lists
C7_FailureIsClean ==
    (Checked /\ QueryRaises(repo)) =>
        /\ result.stale = PyBool(FALSE)
        /\ result.modified = <<>>
        /\ result.untracked = <<>>

C7_Witness ==
    /\ Checked
    /\ repo.kind = "repo"
    /\ repo.detached
    /\ repo.untracked # {}
    /\ repo.staged = {} /\ repo.unstaged = {}
    /\ result = StaleResult(RootDir, PyBool(FALSE), <<>>, <<>>)

NoRemoteOnBranch(r) == r.kind = "repo" /\ r.remote = "none" /\ ~r.detached

\* C10 as stated: for a repository with no remote, is_repo_dirty returns the
\* integer 0 when the working tree is clean and get_repo_status returns the
\* integer 0
C10_BothReturnZero ==
    NoRemoteOnBranch(repo) =>
        /\ (Checked /\ repo.staged = {} /\ repo.unstaged = {})
               => result.stale = PyInt(0)
        /\ pc = "queried" => status_ret = Ok(PyInt(0))

\* C10 amended: for a repository with no remote and HEAD on a branch,
\* is_repo_dirty returns the integer 0 when index and working tree are clean,
\* get_repo_commit_diff returns 0 and get_repo_status returns the empty
\* string; get_repo_status never returns anything but a str
C10_NoRemoteReturns ==
    /\ NoRemoteOnBranch(repo) =>
          /\ (Checked /\ repo.staged = {} /\ repo.unstaged = {})
                 => result.stale = PyInt(0)
          /\ pc = "queried" =>
                 status_ret = Ok(EmptyStr) /\ diff_ret = Ok(PyInt(0))
    /\ (pc = "queried" /\ status_ret.exc = "none")
          => status_ret.val.type = "str"

C10_Witness ==
    /\ pc = "queried"
    /\ NoRemoteOnBranch(repo)
    /\ repo.staged = {} /\ repo.unstaged = {}
    /\ result.stale = PyInt(0)
    /\ status_ret = Ok(EmptyStr)

----------------------------------------------------------------------------
(* Properties of Spec *)

WalkOver == pc \in {"filter", "print", "done", "crashed"}
RunOver == pc \in {"done", "crashed"}

\* the paths passed to check_directory inside the walk loop
WalkChecked == {checked[i] : i \in 2..Len(checked)}

\* C3: next to the path of a printed repository whose local branch is N
\* commits ahead of (behind) its remote tracking branch stands +N (-N), also
\* when the branches have diverged; when they are level the count is 0
C3_PrintedCount ==
    \A i \in 1..Len(output) :
        LET r == fs[output[i].directory]
            plus == output[i].diff_sign = "+" /\ output[i].count = r.ahead
            minus == output[i].diff_sign = "-" /\ output[i].count = r.behind
        IN  r.hasRef =>
              /\ (r.ahead > 0 /\ r.behind = 0) => plus
              /\ (r.behind > 0 /\ r.ahead = 0) => minus
              /\ (r.ahead > 0 /\ r.behind > 0) => (plus \/ minus)
              /\ (r.ahead = 0 /\ r.behind = 0) => output[i].count = 0

\* C5: the directories checked inside the walk loop are exactly the
\* directories 1 to depth levels below the root
C5_WalkChecksLevels ==
    WalkOver => WalkChecked = {p \in DOMAIN fs : Level(p) \in 1..depth}

\* C6: no failure of a repository query terminates the run
C6_NoFailureEndsRun == pc # "crashed"

\* C8: when the run is over, the printed blocks are those of the stale
\* directories checked in the walk, one each, in ascending order of path
C8_OneBlockPerStale ==
    RunOver =>
        /\ {output[i].directory : i \in 1..Len(output)} =
              {p \in WalkChecked : IsStale(check_directory(p, fs[p]))}
        /\ \A i, j \in 1..Len(output) :
              i < j => StrLess(output[i].directory, output[j].directory)

\* C9: when the root is a git repository no other directory is checked, and
\* the root's result is the one reported
C9_RootRepoOnlyChecked ==
    (fs # <<>> /\ fs[RootDir].kind = "repo") =>
        /\ Range(checked) \subseteq {RootDir}
        /\ (pc = "done" /\ IsStale(check_directory(RootDir, fs[RootDir])))
              => {output[i].directory : i \in 1..Len(output)} = {RootDir}

====
